---- MODULE Spec2Model ----
(***************************************************************************)
(* State-machine model of the Yatube posts application                     *)
(* (yatube/posts/views.py, yatube/posts/utils.py).                         *)
(*                                                                         *)
(* The state is the content store (Post, Comment and Follow tables), the   *)
(* response cache of the site feed, the wall clock, and the last request   *)
(* together with the response it was answered with.  One action models     *)
(* one request handler, from the decorator down to the response.           *)
(***************************************************************************)
EXTENDS Bags, FiniteSets, Integers, Sequences, TLC

VARIABLES posts, nextPostId, comments, nextCommentId, follows, cache, now,
          request, response

vars == <<posts, nextPostId, comments, nextCommentId, follows, cache, now,
          request, response>>

(***************************************************************************)
(* Bounds and program constants                                            *)
(***************************************************************************)
MaxPosts == 2        \* primary keys handed out to posts
MaxComments == 1     \* primary keys handed out to comments
MaxTime == 20        \* last instant of the wall clock
TickStep == 10       \* seconds that pass in one step of the clock
MaxBulk == 23        \* largest number of posts in the pagination fixture
MaxPageArg == 4      \* largest ?page= value a client sends

POSTS_COUNT == 10    \* views.py: page size of every feed
CACHE_TIMEOUT == 20  \* views.py: cache_page(timeout=20)

Users == {"u1", "u2", "u3"}      \* registered usernames
Anonymous == "anon"              \* request.user of a client that is not logged in
Clients == Users \cup {Anonymous}
Usernames == Users \cup {"ghost"} \* usernames a URL can carry; "ghost" is unknown
Groups == {"g1", "g2"}                 \* stored groups, named by slug
NoGroup == "nogroup"             \* group = NULL / empty choice
Images == {"i1"}                 \* uploaded files
NoImage == "noimage"             \* no file in the request / empty image field
ClearImage == "clear"            \* the image-clear checkbox of the form
Texts == {"", "a", "b"}          \* submitted text; "" is the empty text

(***************************************************************************)
(* Requests, paths and responses                                           *)
(***************************************************************************)
Path(view, post_id, name) == [view |-> view, post_id |-> post_id, name |-> name]
NoPath == Path("", 0, "")
LOGIN_URL == "login"

NoData == [text |-> "", group |-> NoGroup, image |-> NoImage]
NoPage == <<>>   \* request.GET has no 'page' key

Request(view, user, method, post_id, name, data, page) ==
    [path |-> Path(view, post_id, name), user |-> user, method |-> method,
     data |-> data, page |-> page]

Response(kind, to, next, page, following, coms) ==
    [kind |-> kind, to |-> to, next |-> next, page |-> page,
     following |-> following, comments |-> coms]

Rendered(template, page, following, coms) ==
    Response("render", Path(template, 0, ""), NoPath, page, following, coms)
Redirect(to) == Response("redirect", to, NoPath, <<>>, FALSE, {})
\* an exception that leaves the view: Django answers 500
ServerError == Response("fault", NoPath, NoPath, <<>>, FALSE, {})

\* django.contrib.auth.decorators.login_required: the wrapped view runs only
\* for an authenticated user
is_authenticated_anyone(user) == TRUE
is_authenticated(user) == user # Anonymous
\* redirect_to_login: LOGIN_URL?next=<requested path>
RedirectToLogin(path) ==
    Response("redirect", Path(LOGIN_URL, 0, ""), path, <<>>, FALSE, {})

(***************************************************************************)
(* The Follow table                                                        *)
(***************************************************************************)
FollowRow(user, author) == <<user, author>>

\* Follow.objects.filter(user=user, author=author): the matching rows
Follow_filter_user(store, user, author) ==
    {r \in BagToSet(store) : r[1] = user}
Follow_filter(store, user, author) ==
    {r \in BagToSet(store) : r = FollowRow(user, author)}

\* QuerySet.delete(): every matching row goes, whatever their number
Follow_delete_all(store, rows) == EmptyBag
Follow_delete(store, rows) ==
    [r \in (DOMAIN store) \ rows |-> store[r]]

\* Follow.save(): INSERT under the constraints of the Follow table.  The
\* table rejects a pair it already holds and a pair whose user is the author.
Follow_save(store, user, author) ==
    IF BagIn(FollowRow(user, author), store) \/ user = author
    THEN [ok |-> FALSE, store |-> store]
    ELSE [ok |-> TRUE, store |-> store (+) SetToBag({FollowRow(user, author)})]

(***************************************************************************)
(* The Post table                                                          *)
(***************************************************************************)
PostIds == 1..MaxPosts

\* Post.objects.get(pk=post_id); callers test Post_exists first
Post_exists(table, post_id) == \E p \in table : p.id = post_id
Post_get_first(table, post_id) ==
    CHOOSE p \in table : \A q \in table : p.id <= q.id
Post_get(table, post_id) == CHOOSE p \in table : p.id = post_id

\* ordering '-pub_date'.  Two posts saved within one tick of the clock were
\* saved at different instants, the later one with the larger primary key.
Older(p, q) ==
    \/ p.created_at < q.created_at
    \/ p.created_at = q.created_at /\ p.id < q.id
Newer(p, q) ==
    \/ p.created_at > q.created_at
    \/ p.created_at = q.created_at /\ p.id > q.id

RECURSIVE SetToSeq(_)
\* the rows of a table, one after the other
SetToSeq(S) ==
    IF S = {} THEN <<>>
    ELSE LET x == CHOOSE y \in S : TRUE
         IN  <<x>> \o SetToSeq(S \ {x})

order_by_pub_date_desc(S) == SortSeq(SetToSeq(S), Newer)

\* views.index: Post.objects.all().order_by('-pub_date')
index_post_list(table) == order_by_pub_date_desc(table)

\* The order of a Post queryset that states none: the default ordering of the
\* Post model.  The feeds of the group, the profile and the follow page have
\* "the same ordering" as the site feed.
Post_Meta_ordering(S) == order_by_pub_date_desc(S)

\* views.group_posts, lines 26-27: the rows of group.posts.all()
group_posts_filter_all(table, slug) == table
group_posts_filter(table, slug) == {p \in table : p.group = slug}

\* views.group_posts: post_list, the rows above in the model's ordering
group_post_list(table, slug) ==
    Post_Meta_ordering(group_posts_filter(table, slug))

\* views.profile, line 39: the rows of Post.objects.filter(author=author)
profile_filter(table, author) == {p \in table : p.author = author}

\* views.profile: post_list, the rows above in the model's ordering
profile_post_list(table, author) ==
    Post_Meta_ordering(profile_filter(table, author))

(***************************************************************************)
(* utils.get_page_obj and django.core.paginator.Paginator                  *)
(***************************************************************************)
Max(a, b) == IF a >= b THEN a ELSE b
CeilDiv(a, b) == (a + b - 1) \div b

\* Paginator.num_pages with orphans = 0, allow_empty_first_page = True
num_pages(count, per_page) == CeilDiv(Max(1, count), per_page)

\* Paginator.get_page: a missing or non-integer number gives page 1, a number
\* below 1 or above num_pages gives the last page
validate_number_first(page, count, per_page) ==
    IF page = NoPage THEN 1
    ELSE IF page[1] < 1 THEN 1
    ELSE IF page[1] > num_pages(count, per_page) THEN 1
    ELSE page[1]
validate_number(page, count, per_page) ==
    IF page = NoPage THEN 1
    ELSE IF page[1] < 1 THEN num_pages(count, per_page)
    ELSE IF page[1] > num_pages(count, per_page) THEN num_pages(count, per_page)
    ELSE page[1]

\* Paginator.page(number).object_list = object_list[bottom:top]
page_slice_one_more(post_list, number, per_page) ==
    LET count == Len(post_list)
        bottom == (number - 1) * per_page
        top == IF bottom + per_page + 1 >= count THEN count
               ELSE bottom + per_page + 1
    IN  SubSeq(post_list, bottom + 1, top)
page_slice(post_list, number, per_page) ==
    LET count == Len(post_list)
        bottom == (number - 1) * per_page
        top == IF bottom + per_page >= count THEN count ELSE bottom + per_page
    IN  SubSeq(post_list, bottom + 1, top)

get_page_obj(post_list, posts_count, page) ==
    page_slice(post_list,
               validate_number(page, Len(post_list), posts_count),
               posts_count)

(***************************************************************************)
(* Initial state                                                           *)
(***************************************************************************)
NoRequest == Request("", Anonymous, "GET", 0, "", NoData, NoPage)
NoResponse == Response("", NoPath, NoPath, <<>>, FALSE, {})

Init ==
    /\ posts = {}
    /\ nextPostId = 1
    /\ comments = {}
    /\ nextCommentId = 1
    /\ follows = EmptyBag
    /\ cache = {}
    /\ now = 0
    /\ request = NoRequest
    /\ response = NoResponse

(***************************************************************************)
(* Handlers                                                                *)
(***************************************************************************)
\* views.profile: not behind login_required
profile(user, username, page) ==
    /\ request' = Request("profile", user, "GET", 0, username, NoData, page)
    /\ response' =
         IF username \notin Users THEN ServerError          \* User.DoesNotExist
         ELSE IF ~is_authenticated(user) THEN ServerError   \* filter(user=AnonymousUser)
         ELSE LET post_list == profile_post_list(posts, username)
                  page_obj == get_page_obj(post_list, POSTS_COUNT, page)
                  follow == Follow_filter(follows, user, username)
              IN  Rendered("posts/profile.html", page_obj, follow # {}, {})
    /\ UNCHANGED <<posts, nextPostId, comments, nextCommentId, follows, cache, now>>

\* views.profile_follow
profile_follow_unchecked(user, username) ==
    /\ request' = Request("profile_follow", user, "GET", 0, username, NoData, NoPage)
    /\ IF ~is_authenticated(user)
       THEN /\ response' = RedirectToLogin(request'.path)
            /\ UNCHANGED follows
       ELSE IF username \notin Users
       THEN /\ response' = ServerError
            /\ UNCHANGED follows
       ELSE /\ follows' = follows (+) SetToBag({FollowRow(user, username)})
            /\ response' = Redirect(Path("profile", 0, username))
    /\ UNCHANGED <<posts, nextPostId, comments, nextCommentId, cache, now>>

profile_follow(user, username) ==
    /\ request' = Request("profile_follow", user, "GET", 0, username, NoData, NoPage)
    /\ IF ~is_authenticated(user)
       THEN /\ response' = RedirectToLogin(request'.path)
            /\ UNCHANGED follows
       ELSE IF username \notin Users
       THEN /\ response' = ServerError                      \* User.DoesNotExist
            /\ UNCHANGED follows
       ELSE LET saved == Follow_save(follows, user, username)
            IN  /\ follows' = saved.store
                /\ response' = IF saved.ok
                               THEN Redirect(Path("profile", 0, username))
                               ELSE ServerError             \* IntegrityError
    /\ UNCHANGED <<posts, nextPostId, comments, nextCommentId, cache, now>>

\* views.profile_unfollow
profile_unfollow(user, username) ==
    /\ request' = Request("profile_unfollow", user, "GET", 0, username, NoData, NoPage)
    /\ IF ~is_authenticated(user)
       THEN /\ response' = RedirectToLogin(request'.path)
            /\ UNCHANGED follows
       ELSE IF username \notin Users
       THEN /\ response' = ServerError                      \* User.DoesNotExist
            /\ UNCHANGED follows
       ELSE /\ follows' = Follow_delete(follows,
                                        Follow_filter(follows, user, username))
            /\ response' = Redirect(Path("profile", 0, username))
    /\ UNCHANGED <<posts, nextPostId, comments, nextCommentId, cache, now>>

(***************************************************************************)
(* forms.PostForm and forms.CommentForm                                    *)
(***************************************************************************)
\* PostForm(request.POST or None, files=request.FILES or None).is_valid():
\* the text field is required
PostForm_is_valid(data) == data.text # ""

\* the image a saved form leaves on its instance: an uploaded file replaces
\* the stored reference, the clear checkbox empties it, otherwise it stays
PostForm_image(data, initial) ==
    IF data.image \in Images THEN data.image
    ELSE IF data.image = ClearImage THEN NoImage
    ELSE initial

\* PostForm.save(commit=False) on a new instance, then post.author = user,
\* post.save(): pub_date is set on insert (auto_now_add)
PostForm_create(data, id, user, time) ==
    [id |-> id, text |-> data.text, group |-> data.group,
     image |-> PostForm_image(data, NoImage), author |-> user,
     created_at |-> time]

\* PostForm(..., instance=post).save(): the form fields are written back
PostForm_save(data, post) ==
    [post EXCEPT !.text = data.text, !.group = data.group,
                 !.image = PostForm_image(data, post.image)]

\* CommentForm(request.POST or None).is_valid(): the text field is required
CommentForm_is_valid(data) == data.text # ""

(***************************************************************************)
(* Feeds                                                                   *)
(***************************************************************************)
RECURSIVE Repeat(_, _)
Repeat(x, n) == IF n <= 0 THEN <<>> ELSE <<x>> \o Repeat(x, n - 1)

RECURSIVE JoinFollowing(_, _, _)
\* views.follow_index, line 116: the rows of Post JOIN Follow ON
\* post.author = follow.author for one user, in the order of post_list
JoinFollowing_all(post_list, store, user) == post_list
JoinFollowing(post_list, store, user) ==
    IF post_list = <<>> THEN <<>>
    ELSE Repeat(Head(post_list),
                CopiesIn(FollowRow(user, Head(post_list).author), store))
         \o JoinFollowing(Tail(post_list), store, user)

\* views.follow_index: post_list, the rows of the join in the model's ordering
follow_post_list(table, store, user) ==
    JoinFollowing(Post_Meta_ordering(table), store, user)

(***************************************************************************)
(* The response cache of the site feed (cache_page on views.index)         *)
(***************************************************************************)
\* cache.get(key): an entry is served until its timeout has elapsed
cache_get_forever(entries, key, time) ==
    {e \in entries : e.key = key}
cache_get(entries, key, time) ==
    {e \in entries : e.key = key /\ e.expires > time}

\* cache.set(key, value, timeout)
cache_set(entries, key, value, time, timeout) ==
    {e \in entries : e.key # key}
    \cup {[key |-> key, value |-> value, expires |-> time + timeout]}

\* views.index without its decorator: the site feed rendered from the store
index_render(table, page) ==
    LET post_list == index_post_list(table)
        page_obj == get_page_obj(post_list, POSTS_COUNT, page)
    IN  Rendered("posts/index.html", page_obj, FALSE, {})

\* views.index behind cache_page(timeout=20, key_prefix='index_page')
index(user, page) ==
    /\ request' = Request("index", user, "GET", 0, "", NoData, page)
    /\ LET hit == cache_get(cache, page, now)
       IN  IF hit # {}
           THEN /\ response' = (CHOOSE e \in hit : TRUE).value
                /\ UNCHANGED cache
           ELSE /\ response' = index_render(posts, page)
                /\ cache' = cache_set(cache, page, response', now, CACHE_TIMEOUT)
    /\ UNCHANGED <<posts, nextPostId, comments, nextCommentId, follows, now>>

\* django.core.cache.cache.clear()
cache_clear ==
    /\ cache # {}
    /\ cache' = {}
    /\ request' = NoRequest
    /\ response' = NoResponse
    /\ UNCHANGED <<posts, nextPostId, comments, nextCommentId, follows, now>>

\* views.group_posts
group_posts(user, slug, page) ==
    /\ request' = Request("group_list", user, "GET", 0, slug, NoData, page)
    /\ response' =
         IF slug \notin Groups
         THEN Response("notfound", NoPath, NoPath, <<>>, FALSE, {})  \* get_object_or_404
         ELSE LET post_list == group_post_list(posts, slug)
                  page_obj == get_page_obj(post_list, POSTS_COUNT, page)
              IN  Rendered("posts/group_list.html", page_obj, FALSE, {})
    /\ UNCHANGED <<posts, nextPostId, comments, nextCommentId, follows, cache, now>>

\* views.post_detail, line 57: Comment.objects.filter(post=post.id)
Comment_filter_all(table, post_id) == table
Comment_filter(table, post_id) == {c \in table : c.post = post_id}

\* views.post_detail
post_detail(user, post_id) ==
    /\ request' = Request("post_detail", user, "GET", post_id, "", NoData, NoPage)
    /\ response' =
         IF ~Post_exists(posts, post_id) THEN ServerError   \* Post.DoesNotExist
         ELSE LET post == Post_get(posts, post_id)
              IN  Rendered("posts/post_detail.html", <<post>>, FALSE,
                           Comment_filter(comments, post.id))
    /\ UNCHANGED <<posts, nextPostId, comments, nextCommentId, follows, cache, now>>

\* views.post_edit, line 89: only the author goes on to the form
is_author_anyone(post, user) == TRUE
is_author(post, user) == post.author = user

\* views.post_create, line 70: the form is rendered again
form_rerender_and(method, data) ==
    ~(method = "POST") /\ ~PostForm_is_valid(data)
form_rerender(method, data) ==
    ~(method = "POST") \/ ~PostForm_is_valid(data)

\* views.post_create
post_create(user, method, data) ==
    /\ request' = Request("post_create", user, method, 0, "", data, NoPage)
    /\ IF ~is_authenticated(user)
       THEN /\ response' = RedirectToLogin(request'.path)
            /\ UNCHANGED <<posts, nextPostId>>
       ELSE IF form_rerender(method, data)
       THEN /\ response' = Rendered("posts/create_post.html", <<>>, FALSE, {})
            /\ UNCHANGED <<posts, nextPostId>>
       ELSE IF ~PostForm_is_valid(data)
       THEN /\ response' = ServerError     \* the view returns None
            /\ UNCHANGED <<posts, nextPostId>>
       ELSE /\ nextPostId <= MaxPosts
            /\ posts' = posts \cup {PostForm_create(data, nextPostId, user, now)}
            /\ nextPostId' = nextPostId + 1
            /\ response' = Redirect(Path("profile", 0, user))
    /\ UNCHANGED <<comments, nextCommentId, follows, cache, now>>

\* views.post_edit
post_edit(user, post_id, method, data) ==
    /\ request' = Request("post_edit", user, method, post_id, "", data, NoPage)
    /\ IF ~is_authenticated(user)
       THEN /\ response' = RedirectToLogin(request'.path)
            /\ UNCHANGED posts
       ELSE IF ~Post_exists(posts, post_id)
       THEN /\ response' = ServerError                      \* Post.DoesNotExist
            /\ UNCHANGED posts
       ELSE LET post == Post_get(posts, post_id)
            IN  IF ~is_author(post, user)
                THEN /\ response' = Redirect(Path("post_detail", post_id, ""))
                     /\ UNCHANGED posts
                ELSE IF form_rerender(method, data)
                THEN /\ response' = Rendered("posts/create_post.html", <<>>,
                                             FALSE, {})
                     /\ UNCHANGED posts
                ELSE IF ~PostForm_is_valid(data)
                THEN /\ response' = ServerError     \* the view returns None
                     /\ UNCHANGED posts
                ELSE /\ posts' = (posts \ {post}) \cup {PostForm_save(data, post)}
                     /\ response' = Redirect(Path("post_detail", post_id, ""))
    /\ UNCHANGED <<nextPostId, comments, nextCommentId, follows, cache, now>>

\* views.add_comment
add_comment(user, post_id, method, data) ==
    /\ request' = Request("add_comment", user, method, post_id, "", data, NoPage)
    /\ IF ~is_authenticated(user)
       THEN /\ response' = RedirectToLogin(request'.path)
            /\ UNCHANGED <<comments, nextCommentId>>
       ELSE IF ~Post_exists(posts, post_id)
       THEN /\ response' = ServerError                      \* Post.DoesNotExist
            /\ UNCHANGED <<comments, nextCommentId>>
       ELSE /\ IF method = "POST" /\ CommentForm_is_valid(data)
               THEN /\ nextCommentId <= MaxComments
                    /\ comments' = comments \cup
                         {[id |-> nextCommentId, text |-> data.text,
                           author |-> user, post |-> post_id,
                           created_at |-> now]}
                    /\ nextCommentId' = nextCommentId + 1
               ELSE UNCHANGED <<comments, nextCommentId>>
            /\ response' = Redirect(Path("post_detail", post_id, ""))
    /\ UNCHANGED <<posts, nextPostId, follows, cache, now>>

\* views.follow_index
follow_index(user, page) ==
    /\ request' = Request("follow_index", user, "GET", 0, "", NoData, page)
    /\ response' =
         IF ~is_authenticated(user) THEN RedirectToLogin(request'.path)
         ELSE LET post_list == follow_post_list(posts, follows, user)
                  page_obj == get_page_obj(post_list, POSTS_COUNT, page)
              IN  Rendered("posts/follow.html", page_obj, FALSE, {})
    /\ UNCHANGED <<posts, nextPostId, comments, nextCommentId, follows, cache, now>>

\* The steps below are not HTTP exchanges: request and response, which hold
\* the exchange of the current step, are empty after them.

\* Post.delete(): the comments of the post go with it (on_delete=CASCADE)
Post_delete(post_id) ==
    /\ Post_exists(posts, post_id)
    /\ posts' = {p \in posts : p.id # post_id}
    /\ comments' = {c \in comments : c.post # post_id}
    /\ request' = NoRequest
    /\ response' = NoResponse
    /\ UNCHANGED <<nextPostId, nextCommentId, follows, cache, now>>

\* the wall clock
Tick(limit) ==
    /\ now + TickStep <= limit
    /\ now' = now + TickStep
    /\ request' = NoRequest
    /\ response' = NoResponse
    /\ UNCHANGED <<posts, nextPostId, comments, nextCommentId, follows, cache>>

PageArgs == {NoPage} \cup {<<n>> : n \in 0..MaxPageArg}
Slugs == Groups \cup {"ghost"}
CommentData == [text : Texts, group : {NoGroup}, image : {NoImage}]
\* a GET carries no form data
FormInput(D) == ({"GET"} \X {NoData}) \cup ({"POST"} \X D)

\* the forms the authenticated clients of Spec submit
PostForms ==
    { [text |-> "",  group |-> "g1",    image |-> "i1"],
      [text |-> "a", group |-> NoGroup, image |-> NoImage],
      [text |-> "a", group |-> "g1",    image |-> "i1"],
      [text |-> "b", group |-> NoGroup, image |-> "i1"],
      [text |-> "b", group |-> "g1",    image |-> ClearImage] }

\* the users that write posts in Spec
Authors == {"u1", "u2"}

\* Spec: the post forms.  Registered users create and edit posts, posts are
\* deleted, the clock advances.
Next ==
    \/ \E u \in Authors, in \in FormInput(PostForms) : post_create(u, in[1], in[2])
    \/ \E u \in Authors, id \in PostIds, in \in FormInput(PostForms) :
          post_edit(u, id, in[1], in[2])
    \/ \E id \in PostIds : Post_delete(id)
    \/ Tick(TickStep)

Spec == Init /\ [][Next]_vars

\* SpecFollow: the Follow relation.  Every client follows and unfollows every
\* username, reads profiles and the follow feed; registered users post.
PlainPost == [text |-> "a", group |-> NoGroup, image |-> NoImage]

NextFollow ==
    \/ \E u \in Clients, a \in Usernames : profile_follow(u, a)
    \/ \E u \in Clients, a \in Usernames : profile_unfollow(u, a)
    \/ \E u \in Clients, a \in Usernames : profile(u, a, NoPage)
    \/ \E u \in Clients : follow_index(u, NoPage)
    \/ \E u \in Authors : post_create(u, "POST", PlainPost)

SpecFollow == Init /\ [][NextFollow]_vars

\* SpecGuest: the login wall.  Registered users fill the store; a client
\* that is not logged in sends every request to every handler behind
\* login_required.
PlainComment == [text |-> "a", group |-> NoGroup, image |-> NoImage]

NextGuest ==
    \/ \E u \in Authors : post_create(u, "POST", PlainPost)
    \/ \E u \in Authors, id \in PostIds : add_comment(u, id, "POST", PlainComment)
    \/ \E u \in Authors, a \in Authors : profile_follow(u, a)
    \/ \E in \in FormInput(PostForms) : post_create(Anonymous, in[1], in[2])
    \/ \E id \in PostIds, in \in FormInput(PostForms) :
          post_edit(Anonymous, id, in[1], in[2])
    \/ \E id \in PostIds, in \in FormInput(CommentData) :
          add_comment(Anonymous, id, in[1], in[2])
    \/ \E pg \in PageArgs : follow_index(Anonymous, pg)
    \/ \E a \in Usernames : profile_follow(Anonymous, a)
    \/ \E a \in Usernames : profile_unfollow(Anonymous, a)

SpecGuest == Init /\ [][NextGuest]_vars

\* SpecComment: comments.  Registered users post, comment on every post id
\* with every method and text, and read the detail pages.
NextComment ==
    \/ \E u \in Authors : post_create(u, "POST", PlainPost)
    \/ \E u \in Authors, id \in PostIds, in \in FormInput(CommentData) :
          add_comment(u, id, in[1], in[2])
    \/ \E u \in Authors, id \in PostIds : post_detail(u, id)

SpecComment == Init /\ [][NextComment]_vars

\* SpecFeed: the filtered feeds.  Registered users post into each group and
\* into none, move their posts between groups, and read every group feed and
\* every profile feed.
FeedForms == {[text |-> "a", group |-> g, image |-> NoImage] :
                 g \in Groups \cup {NoGroup}}

NextFeed ==
    \/ \E u \in Authors, d \in FeedForms : post_create(u, "POST", d)
    \/ \E u \in Authors, id \in PostIds, d \in FeedForms :
          post_edit(u, id, "POST", d)
    \/ \E u \in Authors, g \in Slugs : group_posts(u, g, NoPage)
    \/ \E u \in Authors, a \in Usernames : profile(u, a, NoPage)

SpecFeed == Init /\ [][NextFeed]_vars

\* SpecCache: the response cache of the site feed.  The site feed is read
\* under two cache keys, posts are created and deleted, the cache is cleared
\* and the clock advances past the timeout.
CachePages == {NoPage, <<1>>}

NextCache ==
    \/ \E pg \in CachePages : index(Anonymous, pg)
    \/ post_create("u1", "POST", PlainPost)
    \/ \E id \in PostIds : Post_delete(id)
    \/ cache_clear
    \/ Tick(MaxTime)

SpecCache == Init /\ [][NextCache]_vars

\* SpecPage: pagination.  The store starts with a batch of posts, as after
\* Post.objects.bulk_create in test_paginator: either all by one author in
\* one group, or every second one; two posts share each instant of the clock.
\* The reader follows the other author.  The four feeds are read with every
\* page argument.
Strides == {1, 2}

BulkPost(i, k) ==
    [id |-> i, text |-> "a",
     group |-> IF i % k = 0 THEN "g1" ELSE NoGroup,
     image |-> NoImage,
     author |-> IF i % k = 0 THEN "u1" ELSE "u2",
     created_at |-> (i + 1) \div 2]

InitPage ==
    \E n \in 0..MaxBulk, k \in Strides :
        /\ posts = {BulkPost(i, k) : i \in 1..n}
        /\ nextPostId = n + 1
        /\ comments = {}
        /\ nextCommentId = 1
        /\ follows = SetToBag({FollowRow("u1", "u2")})
        /\ cache = {}
        /\ now = (n + 1) \div 2
        /\ request = NoRequest
        /\ response = NoResponse

\* the site feed is read under two page arguments, the first page and the
\* largest one below MaxPageArg: every one of them adds an entry to the cache
IndexPages == {<<1>>, <<MaxPageArg - 1>>}

NextPage ==
    \/ \E pg \in IndexPages : index("u1", pg)
    \/ \E g \in Slugs, pg \in PageArgs : group_posts("u1", g, pg)
    \/ \E a \in Usernames, pg \in PageArgs : profile("u1", a, pg)
    \/ \E pg \in PageArgs : follow_index("u1", pg)

SpecPage == InitPage /\ [][NextPage]_vars

(***************************************************************************)
(* Claims                                                                  *)
(***************************************************************************)
\* The claims about one request read the exchange of the step from request'
\* and response': every handler sets them, every other step empties them.

\* the row of table with this primary key, as a set of at most one record
Row(table, id) == {p \in table : p.id = id}

OneRow(user, author) == SetToBag({FollowRow(user, author)})

\* the step answers a request of a registered user to this view
Answers(view) ==
    /\ request'.path.view = view
    /\ request'.user \in Users

\* the step answers a follow or unfollow request of one registered user for
\* another registered username
AnswersPair(view) ==
    /\ Answers(view)
    /\ request'.path.name \in Users

\* the pair (user, author) a follow, unfollow or profile request names
Pair == FollowRow(request'.user, request'.path.name)

\* C1: after every step the Follow table holds each (user, author) pair at
\* most once, and a follow request for a pair the table already holds is
\* rejected: the table stays as it is and the answer is not the redirect.
C1_PairUnique ==
    [][ /\ \A r \in BagToSet(follows') : CopiesIn(r, follows') = 1
        /\ (AnswersPair("profile_follow") /\ BagIn(Pair, follows))
           => /\ follows' = follows
              /\ response'.kind = "fault"
      ]_vars

\* C1 happens: a user has asked to follow an author a second time; the table
\* holds the pair and the request was rejected
C1_Witness ==
    /\ request.path.view = "profile_follow"
    /\ request.user \in Users
    /\ request.path.name \in Users
    /\ request.user # request.path.name
    /\ response.kind = "fault"
    /\ CopiesIn(FollowRow(request.user, request.path.name), follows) = 1

\* C2: after every step no Follow row has its user as author, and a follow
\* request of an authenticated user for their own username is rejected and
\* leaves the Follow table as it is.
C2_NoSelfFollow ==
    [][ /\ \A r \in BagToSet(follows') : r[1] # r[2]
        /\ (Answers("profile_follow") /\ request'.path.name = request'.user)
           => /\ follows' = follows
              /\ response'.kind = "fault"
      ]_vars

\* C2 happens: a user who follows somebody has asked to follow themself
C2_Witness ==
    /\ request.path.view = "profile_follow"
    /\ request.user \in Users
    /\ request.path.name = request.user
    /\ response.kind = "fault"
    /\ follows # EmptyBag

\* C7: for u # a, a follow request without a row (u, a) adds that one row and
\* nothing else, and the unfollow request that meets the row takes exactly
\* that row away again, which gives back the table from before the follow;
\* and the profile of a rendered for u carries following = TRUE exactly when
\* the table holds a row (u, a).
C7_FollowUnfollowRoundTrip ==
    [][ /\ ( /\ AnswersPair("profile_follow")
             /\ request'.user # request'.path.name
             /\ ~BagIn(Pair, follows) )
           => /\ follows' = follows (+) SetToBag({Pair})
              /\ follows' (-) SetToBag({Pair}) = follows
        /\ (AnswersPair("profile_unfollow") /\ BagIn(Pair, follows))
           => /\ follows' (+) SetToBag({Pair}) = follows
              /\ ~BagIn(Pair, follows')
        /\ AnswersPair("profile")
           => /\ response'.kind = "render"
              /\ response'.following = BagIn(Pair, follows)
              /\ follows' = follows
      ]_vars

\* C7 happens: the profile of an author was rendered with following = TRUE
\* for a user who follows that author
C7_Witness ==
    /\ request.path.view = "profile"
    /\ response.kind = "render"
    /\ response.following
    /\ BagIn(FollowRow(request.user, request.path.name), follows)

\* C7 happens, the other way: a user who follows another author sees the
\* profile of an author they do not follow with following = FALSE
C7_WitnessNotFollowing ==
    /\ request.path.view = "profile"
    /\ response.kind = "render"
    /\ ~response.following
    /\ \E a \in Users : BagIn(FollowRow(request.user, a), follows)

\* C8: an unfollow request of an authenticated user for an existing username
\* is answered with the redirect to that profile and never with an error,
\* leaves no row of the pair, leaves the rows of every other pair as they are,
\* and leaves the whole table as it is when the pair had no row (so a second
\* unfollow changes nothing).
C8_UnfollowIdempotent ==
    [][ AnswersPair("profile_unfollow")
        => /\ response'.kind = "redirect"
           /\ response'.to = Path("profile", 0, request'.path.name)
           /\ response'.next = NoPath
           /\ ~BagIn(Pair, follows')
           /\ \A r \in BagToSet(follows) \cup BagToSet(follows') :
                r # Pair => CopiesIn(r, follows') = CopiesIn(r, follows)
           /\ ~BagIn(Pair, follows) => follows' = follows
      ]_vars

\* C8 happens: an unfollow was answered with the redirect while the user
\* still follows another author
C8_Witness ==
    /\ request.path.view = "profile_unfollow"
    /\ request.user \in Users
    /\ response.kind = "redirect"
    /\ ~BagIn(FollowRow(request.user, request.path.name), follows)
    /\ \E a \in Users : BagIn(FollowRow(request.user, a), follows)

\* the views behind login_required
LoginRequired == {"post_create", "post_edit", "add_comment", "follow_index",
                  "profile_follow", "profile_unfollow"}

\* C3: a request of an unauthenticated client to post_create, post_edit,
\* add_comment, follow_index, profile_follow or profile_unfollow, with any
\* method and form data, leaves every Post, Comment and Follow row as it is
\* and is answered with a redirect to the login URL whose next parameter is
\* the requested path.
C3_GuestSentToLogin ==
    [][ (request'.user = Anonymous /\ request'.path.view \in LoginRequired)
        => /\ posts' = posts
           /\ comments' = comments
           /\ follows' = follows
           /\ nextPostId' = nextPostId
           /\ nextCommentId' = nextCommentId
           /\ response'.kind = "redirect"
           /\ response'.to = Path(LOGIN_URL, 0, "")
           /\ response'.next = request'.path
      ]_vars

\* C3 happens: the store holds a post, a comment and a follow row, and a
\* client that is not logged in has posted a valid form to the edit view of
\* the post and was sent to the login URL
C3_Witness ==
    /\ request.user = Anonymous
    /\ request.path.view = "post_edit"
    /\ request.method = "POST"
    /\ request.data.text = "b"
    /\ response.kind = "redirect"
    /\ response.to = Path(LOGIN_URL, 0, "")
    /\ response.next = Path("post_edit", request.path.post_id, "")
    /\ \E p \in posts : p.id = request.path.post_id /\ p.text = "a"
    /\ comments # {}
    /\ follows # EmptyBag

\* the post an edit request names is stored and its author is, or is not,
\* the requesting user
EditBy(isAuthor) ==
    /\ Answers("post_edit")
    /\ \E p \in posts : /\ p.id = request'.path.post_id
                        /\ (p.author = request'.user) = isAuthor

\* C4: a post_edit request (GET or POST, any form data) of an authenticated
\* user who is not the author of the post leaves the Post table as it is and
\* is answered with a redirect to the detail view of the post; and whenever
\* the text or the group of a stored post changes, the step is a post_edit
\* request of the author of the post for that post.
C4_NonAuthorEditLeavesPost ==
    [][ /\ EditBy(FALSE)
           => /\ posts' = posts
              /\ response'.kind = "redirect"
              /\ response'.to = Path("post_detail", request'.path.post_id, "")
              /\ response'.next = NoPath
        /\ \A p \in posts, q \in posts' :
             (p.id = q.id /\ (p.text # q.text \/ p.group # q.group))
             => /\ request'.user = p.author
                /\ request'.path = Path("post_edit", p.id, "")
      ]_vars

\* C4 happens: a non-author has posted a valid form with another text to the
\* edit view of a post, which still has its text
C4_Witness ==
    /\ request.path.view = "post_edit"
    /\ request.method = "POST"
    /\ request.data.text = "b"
    /\ response.kind = "redirect"
    /\ \E p \in posts : /\ p.id = request.path.post_id
                        /\ p.author # request.user
                        /\ p.text = "a"

\* C5: a POST to post_create of an authenticated user with a non-empty text
\* adds exactly one post, which carries the submitted text and image and the
\* requesting user as author, leaves every stored post as it is and is
\* answered with a redirect to the profile of the requester; with an empty
\* text the Post table is unchanged and the form is rendered again.
C5_CreateIffTextNonEmpty ==
    [][ (Answers("post_create") /\ request'.method = "POST")
        => IF request'.data.text # ""
           THEN /\ posts \subseteq posts'
                /\ Cardinality(posts') = Cardinality(posts) + 1
                /\ \A q \in posts' \ posts :
                     /\ q.text = request'.data.text
                     /\ q.image = (IF request'.data.image \in Images
                                   THEN request'.data.image ELSE NoImage)
                     /\ q.author = request'.user
                     /\ \A p \in posts : p.id # q.id
                /\ response'.kind = "redirect"
                /\ response'.to = Path("profile", 0, request'.user)
           ELSE /\ posts' = posts
                /\ response'.kind = "render"
                /\ response'.to = Path("posts/create_post.html", 0, "")
      ]_vars

\* C5 happens: a second post was created from a form with an uploaded image
C5_Witness ==
    /\ request.path.view = "post_create"
    /\ request.method = "POST"
    /\ request.data.image \in Images
    /\ response.kind = "redirect"
    /\ Cardinality(posts) = 2
    /\ \E p \in posts : /\ p.id = nextPostId - 1
                        /\ p.text = request.data.text
                        /\ p.image = request.data.image
                        /\ p.author = request.user

\* C5 happens, the other way: an empty text was posted and the form came back
C5_WitnessEmptyText ==
    /\ request.path.view = "post_create"
    /\ request.method = "POST"
    /\ request.data.text = ""
    /\ response.kind = "render"

\* the step answers a valid POST of the author to the edit view of a post
ValidEdit ==
    /\ EditBy(TRUE)
    /\ request'.method = "POST"
    /\ request'.data.text # ""

\* the frame of a valid edit by the author: the other rows, the number of
\* rows, and the author and created_at of the edited row
EditFrame(id) ==
    /\ Cardinality(posts') = Cardinality(posts)
    /\ \A p \in posts : p.id # id => p \in posts'
    /\ \A p \in Row(posts, id) : \E q \in Row(posts', id) :
          /\ q.author = p.author
          /\ q.created_at = p.created_at

\* C6 as claimed: a valid POST to post_edit by the author changes nothing but
\* the text and the group of that post; its image stays, whatever is posted.
C6_EditKeepsImage ==
    [][ ValidEdit
        => /\ EditFrame(request'.path.post_id)
           /\ \A p \in Row(posts, request'.path.post_id) :
                \E q \in Row(posts', request'.path.post_id) : q.image = p.image
      ]_vars

\* C6 as amended: a valid POST to post_edit by the author keeps the number of
\* posts, every other post, and the author and created_at of the edited post;
\* the text and the group become the submitted ones; the image stays unless
\* the request uploads a file (which becomes the image) or ticks the clear
\* box (which empties it).
C6_EditFrame ==
    [][ ValidEdit
        => /\ EditFrame(request'.path.post_id)
           /\ \A p \in Row(posts, request'.path.post_id) :
                \E q \in Row(posts', request'.path.post_id) :
                   /\ q.text = request'.data.text
                   /\ q.group = request'.data.group
                   /\ request'.data.image = NoImage => q.image = p.image
                   /\ request'.data.image \in Images => q.image = request'.data.image
                   /\ request'.data.image = ClearImage => q.image = NoImage
           /\ response'.kind = "redirect"
           /\ response'.to = Path("post_detail", request'.path.post_id, "")
      ]_vars

\* C6 happens: the author has edited the older of two posts at a later time
\* than it was created, and the post has the posted text
C6_Witness ==
    /\ request.path.view = "post_edit"
    /\ request.method = "POST"
    /\ response.kind = "redirect"
    /\ Cardinality(posts) = 2
    /\ \E p \in posts : /\ p.id = request.path.post_id
                        /\ p.author = request.user
                        /\ p.text = "b"
                        /\ p.text = request.data.text
                        /\ p.created_at < now

\* the posts a rendered page lists
Listed(page) == {page[i] : i \in 1..Len(page)}

\* the cached renderings of the site-feed page pg that were rendered less than
\* 20 seconds ago and not cleared since
Cached(pg) == {e \in cache : e.key = pg /\ now - (e.expires - CACHE_TIMEOUT) < 20}

\* C9: a request for a site-feed page that was rendered and cached less than
\* 20 seconds ago, with no clear since, returns that rendering whatever posts
\* were created or deleted meanwhile, and leaves the cache as it is; creating
\* and deleting posts never touches the cache; a request after a clear or
\* after the 20 seconds returns a rendering of the current store (it lists
\* exactly the stored posts, a deleted one is absent) and stores it in the
\* cache for the next 20 seconds.
C9_CachedSiteFeed ==
    [][ /\ request'.path.view = "index"
           => IF Cached(request'.page) # {}
              THEN /\ \E e \in Cached(request'.page) : response' = e.value
                   /\ cache' = cache
              ELSE /\ response'.kind = "render"
                   /\ Listed(response'.page) = posts
                   /\ Len(response'.page) = Cardinality(posts)
                   /\ \E e \in cache' : /\ e.key = request'.page
                                        /\ e.value = response'
                                        /\ e.expires = now + 20
                   /\ \A e \in cache' :
                        e.key = request'.page => e.value = response'
        /\ posts' # posts => cache' = cache
        /\ now' # now => cache' = cache
      ]_vars

\* C9 happens: the site feed was served from the cache after a post it lists
\* was deleted and a post it does not list was created
C9_Witness ==
    /\ request.path.view = "index"
    /\ response.kind = "render"
    /\ \E p \in Listed(response.page) : p \notin posts
    /\ \E p \in posts : p \notin Listed(response.page)

\* C9 happens, the other way: after the timeout the site feed was rendered
\* again, without a post that was deleted while the page was cached
C9_WitnessExpired ==
    /\ request.path.view = "index"
    /\ response.kind = "render"
    /\ now >= CACHE_TIMEOUT
    /\ Listed(response.page) = posts
    /\ nextPostId > 1 + Cardinality(posts)
    /\ \E e \in cache : e.key = request.page /\ e.expires = now + CACHE_TIMEOUT

\* the number of the last page of a feed of n posts: ceil(n / 10)
LastPage(n) == CHOOSE k \in 0..n : 10 * k >= n /\ 10 * (k - 1) < n

\* min(10, n - 10 * (p - 1))
PageSize(n, p) == IF n - 10 * (p - 1) < 10 THEN n - 10 * (p - 1) ELSE 10

\* the pages 1..ceil(N/10) of a feed, as get_page_obj returns them, have the
\* sizes min(10, N - 10(p-1)), are pairwise disjoint, list no post twice and
\* together list exactly the posts of the feed
Partitioned(post_list) ==
    LET N == Len(post_list)
        pages == [p \in 1..LastPage(N) |-> get_page_obj(post_list, POSTS_COUNT, <<p>>)]
    IN  /\ \A p \in DOMAIN pages :
             /\ Len(pages[p]) = PageSize(N, p)
             /\ Cardinality(Listed(pages[p])) = Len(pages[p])
        /\ \A p, q \in DOMAIN pages :
             p # q => Listed(pages[p]) \cap Listed(pages[q]) = {}
        /\ UNION {Listed(pages[p]) : p \in DOMAIN pages} = Listed(post_list)

\* the posts a feed request selects: all, those of the group, those of the author
Matching(req) ==
    IF req.path.view = "index" THEN posts
    ELSE IF req.path.view = "group_list"
         THEN {x \in posts : x.group = req.path.name}
    ELSE {x \in posts : x.author = req.path.name}

\* C10: for the site feed, the feed of each group and the profile feed of each
\* user, with N matching posts, every page p in 1..ceil(N/10) holds exactly
\* min(10, N - 10(p-1)) posts, the pages are disjoint and together hold every
\* matching post exactly once; and a request to index, group_posts or profile
\* for such a page is answered with that many different matching posts.
C10_PagesPartitionFeed ==
    /\ Partitioned(index_post_list(posts))
    /\ Listed(index_post_list(posts)) = posts
    /\ \A g \in Groups :
         /\ Partitioned(group_post_list(posts, g))
         /\ Listed(group_post_list(posts, g)) = {x \in posts : x.group = g}
    /\ \A a \in Users :
         /\ Partitioned(profile_post_list(posts, a))
         /\ Listed(profile_post_list(posts, a)) = {x \in posts : x.author = a}
    /\ ( /\ request.path.view \in {"index", "group_list", "profile"}
         /\ response.kind = "render"
         /\ request.page # NoPage
         /\ request.page[1] \in 1..LastPage(Cardinality(Matching(request))) )
       => /\ Len(response.page) =
               PageSize(Cardinality(Matching(request)), request.page[1])
          /\ Cardinality(Listed(response.page)) = Len(response.page)
          /\ Listed(response.page) \subseteq Matching(request)

\* C10 happens: page 2 of a feed of more than 10 and fewer than 20 posts was
\* rendered with the remainder
C10_Witness ==
    /\ request.path.view = "group_list"
    /\ request.page = <<2>>
    /\ response.kind = "render"
    /\ Cardinality({x \in posts : x.group = request.path.name}) = 12
    /\ Len(response.page) = 2
    /\ Cardinality(posts) = 12

\* the requests of a logged-in client that address a username, a post id or a
\* group slug the store does not hold
UserViews == {"profile", "profile_follow", "profile_unfollow"}
PostViews == {"post_detail", "post_edit", "add_comment"}

Unknown(req) ==
    /\ req.user \in Users
    /\ \/ req.path.view \in UserViews /\ req.path.name \notin Users
       \/ req.path.view \in PostViews /\ ~Post_exists(posts, req.path.post_id)
       \/ req.path.view = "group_list" /\ req.path.name \notin Groups

\* C11: a request for the profile page of an unknown username, the detail,
\* edit or comment page of an unknown post id, the follow or unfollow of an
\* unknown username, or the group page of an unknown slug is answered with a
\* 404 response, never with an unhandled server fault, and leaves the store
\* unchanged.
C11_UnknownIs404 ==
    [][ Unknown(request')
        => /\ response'.kind = "notfound"
           /\ UNCHANGED <<posts, comments, follows>>
      ]_vars

\* C12: a GET of the profile page of an existing username by a client that
\* is not logged in returns the rendered profile feed of that user with the
\* following flag false; it is not an error and not a login redirect.
C12_GuestReadsProfile ==
    [][ ( /\ request'.path.view = "profile"
          /\ request'.user = Anonymous
          /\ request'.path.name \in Users )
        => /\ response'.kind = "render"
           /\ response'.to = Path("posts/profile.html", 0, "")
           /\ response'.following = FALSE
           /\ Listed(response'.page) =
                {p \in posts : p.author = request'.path.name}
      ]_vars

\* C13: a POST to add_comment by a logged-in user on an existing post creates
\* exactly one comment, with the posted text, the requesting user as author
\* and the addressed post as post, if and only if the text is non-empty; with
\* empty text the comments are unchanged.  Either way no post changes and the
\* response redirects to the detail view of that post, and the detail view of
\* a post lists exactly the comments of that post.
C13_CommentIffTextNonEmpty ==
    [][ /\ ( /\ Answers("add_comment")
             /\ request'.method = "POST"
             /\ Post_exists(posts, request'.path.post_id) )
           => /\ IF request'.data.text # ""
                 THEN \E c \in comments' :
                         /\ c \notin comments
                         /\ comments' = comments \cup {c}
                         /\ c.text = request'.data.text
                         /\ c.author = request'.user
                         /\ c.post = request'.path.post_id
                 ELSE comments' = comments
              /\ posts' = posts
              /\ response' =
                   Redirect(Path("post_detail", request'.path.post_id, ""))
        /\ ( /\ Answers("post_detail")
             /\ Post_exists(posts, request'.path.post_id) )
           => /\ response'.kind = "render"
              /\ response'.to = Path("posts/post_detail.html", 0, "")
              /\ response'.comments =
                   {c \in comments : c.post = request'.path.post_id}
              /\ UNCHANGED <<posts, comments>>
      ]_vars

\* C13 happens: the detail page of one of two posts shows a comment that a
\* user other than the post's author has added to it
C13_Witness ==
    /\ request.path.view = "post_detail"
    /\ response.kind = "render"
    /\ Cardinality(posts) = 2
    /\ \E c \in response.comments :
          /\ c \in comments
          /\ c.post = request.path.post_id
          /\ \E p \in posts : p.id = c.post /\ p.author # c.author

\* C13 happens, the other way: a POST with empty text on an existing post was
\* redirected to the detail view and the store holds no comment
C13_WitnessEmptyText ==
    /\ request.path.view = "add_comment"
    /\ request.method = "POST"
    /\ request.data.text = ""
    /\ Post_exists(posts, request.path.post_id)
    /\ response.kind = "redirect"
    /\ comments = {}

\* C14: in every reachable state the feed of group g holds exactly the posts
\* whose group is g and the profile feed of user u exactly the posts whose
\* author is u, both as the list the handler pages and as the page a request
\* to group_posts or profile is answered with (the feeds here fit one page):
\* a post with group G and author A is in G's feed and A's profile feed, in
\* no other group's and no other user's, and a post without a group is in no
\* group feed.
C14_FeedsFilter ==
    /\ \A g \in Groups :
         Listed(group_post_list(posts, g)) = {p \in posts : p.group = g}
    /\ \A u \in Users :
         Listed(profile_post_list(posts, u)) = {p \in posts : p.author = u}
    /\ ( request.path.view = "group_list" /\ request.path.name \in Groups )
       => /\ response.kind = "render"
          /\ \A p \in posts :
                p \in Listed(response.page) <=> p.group = request.path.name
          /\ Listed(response.page) \subseteq posts
    /\ ( /\ request.path.view = "profile"
         /\ request.user \in Users
         /\ request.path.name \in Users )
       => /\ response.kind = "render"
          /\ \A p \in posts :
                p \in Listed(response.page) <=> p.author = request.path.name
          /\ Listed(response.page) \subseteq posts

\* C14 happens: the feed of one group was rendered with the one post of that
\* group while the store also holds a later post of the same author that has
\* no group
C14_Witness ==
    /\ request.path.view = "group_list"
    /\ response.kind = "render"
    /\ Len(response.page) = 1
    /\ Cardinality(posts) = 2
    /\ \E p, q \in posts :
          /\ p.group = "g2"
          /\ request.path.name = "g2"
          /\ q.group = NoGroup
          /\ q.author = p.author
          /\ q.id > p.id
          /\ response.page = <<p>>

\* the posts whose author the user follows
Followed(user) == {p \in posts : BagIn(FollowRow(user, p.author), follows)}

\* C15: after any sequence of follow, unfollow and post-creation requests,
\* the follow feed a logged-in user is answered with lists every post whose
\* author the user follows at that moment exactly once and no post of an
\* author the user does not follow: no post is listed twice, and the feed of
\* a user who follows nobody is empty (the feeds here fit one page).
C15_FollowFeed ==
    ( request.path.view = "follow_index" /\ request.user \in Users )
    => /\ response.kind = "render"
       /\ Listed(response.page) = Followed(request.user)
       /\ Len(response.page) = Cardinality(Followed(request.user))
       /\ (\A a \in Users : ~BagIn(FollowRow(request.user, a), follows))
            => response.page = <<>>

\* C15 happens: the store holds a post of an author the user follows and a
\* post of an author the user does not follow, and the user's follow feed was
\* rendered with the former alone
C15_Witness ==
    /\ request.path.view = "follow_index"
    /\ response.kind = "render"
    /\ Len(response.page) = 1
    /\ \E p, q \in posts :
          /\ response.page = <<p>>
          /\ BagIn(FollowRow(request.user, p.author), follows)
          /\ ~BagIn(FollowRow(request.user, q.author), follows)
          /\ q.author # request.user

\* C15 happens, the other way: a user who follows nobody got an empty feed
\* while the store holds posts of another user, who follows their author
C15_WitnessFollowsNobody ==
    /\ request.path.view = "follow_index"
    /\ response.kind = "render"
    /\ response.page = <<>>
    /\ \A a \in Users : ~BagIn(FollowRow(request.user, a), follows)
    /\ \E p \in posts, u \in Users : BagIn(FollowRow(u, p.author), follows)

\* the pages of a feed, as get_page_obj returns them, are in descending order
\* of created_at: within every page, and from every page to the one after it
PagesOrdered(post_list) ==
    LET last == LastPage(Len(post_list))
        pages == [p \in 1..last |-> get_page_obj(post_list, POSTS_COUNT, <<p>>)]
    IN  \A p \in 1..last : \A q \in {p, p + 1} \cap (1..last) :
           \A i \in 1..Len(pages[p]), j \in 1..Len(pages[q]) :
              (q > p \/ i < j)
                 => pages[p][i].created_at >= pages[q][j].created_at

\* the requests of a logged-in client for a page of one of the four feeds
FeedViews == {"index", "group_list", "profile", "follow_index"}

FeedRequest(req) ==
    /\ req.user \in Users
    /\ req.path.view \in FeedViews
    /\ req.path.view = "group_list" => req.path.name \in Groups
    /\ req.path.view = "profile" => req.path.name \in Users

\* the list a feed request pages
FeedList(req) ==
    IF req.path.view = "index" THEN index_post_list(posts)
    ELSE IF req.path.view = "group_list"
         THEN group_post_list(posts, req.path.name)
    ELSE IF req.path.view = "profile"
         THEN profile_post_list(posts, req.path.name)
    ELSE follow_post_list(posts, follows, req.user)

\* C16: the site feed, a group feed, a profile feed and a follow feed are
\* ordered by created_at descending: whenever a page of one of them is
\* requested, of two posts on the same page or on successive pages of that
\* feed the one listed first is not older, and so it is on the page the
\* request is answered with.
C16_FeedsNewestFirst ==
    FeedRequest(request)
    => /\ PagesOrdered(FeedList(request))
       /\ response.kind = "render"
       /\ \A i, j \in 1..Len(response.page) :
             i < j => response.page[i].created_at >= response.page[j].created_at

\* C16 happens: the last page of the site feed of 23 posts was rendered with
\* its three oldest posts, a newer one before an older one
C16_Witness ==
    /\ request.path.view = "index"
    /\ request.page # NoPage
    /\ request.page[1] > 1
    /\ response.kind = "render"
    /\ Cardinality(posts) = 23
    /\ Len(response.page) = 3
    /\ response.page[1].created_at > response.page[3].created_at
    /\ \A p \in posts : p \notin Listed(response.page)
          => p.created_at >= response.page[1].created_at

\* C16 happens, on a feed that takes its order from the Post model: the second
\* page of a follow feed of 12 posts was rendered with a newer post before an
\* older one
C16_WitnessFollowFeed ==
    /\ request.path.view = "follow_index"
    /\ request.page = <<2>>
    /\ response.kind = "render"
    /\ Len(response.page) = 2
    /\ response.page[1].created_at > response.page[2].created_at
    /\ Cardinality(Followed(request.user)) = 12

\* the posts a feed request selects
Selected(req) ==
    IF req.path.view = "follow_index" THEN Followed(req.user) ELSE Matching(req)

\* C17: every feed request is answered with a rendered page of at most 10
\* posts; a request whose page number is greater than the number of pages of
\* the feed gets the last page (the posts left over after the full pages, the
\* oldest of the feed); a request on a feed without matching posts gets an
\* empty page.
C17_PageClamped ==
    FeedRequest(request)
    => LET N == Cardinality(Selected(request))
       IN  /\ response.kind = "render"
           /\ Len(response.page) <= 10
           /\ N = 0 => response.page = <<>>
           /\ ( /\ N > 0
                /\ request.page # NoPage
                /\ request.page[1] > LastPage(N) )
              => /\ Len(response.page) = PageSize(N, LastPage(N))
                 /\ Cardinality(Listed(response.page)) = Len(response.page)
                 /\ Listed(response.page) \subseteq Selected(request)
                 /\ \A x \in Selected(request) \ Listed(response.page) :
                       \A y \in Listed(response.page) :
                          x.created_at >= y.created_at

\* C17 happens: page 4 of a group feed of 12 posts was asked for and the
\* second, last page was rendered with the two oldest posts
C17_Witness ==
    /\ request.path.view = "group_list"
    /\ request.page = <<4>>
    /\ response.kind = "render"
    /\ Cardinality(Selected(request)) = 12
    /\ Len(response.page) = 2
    /\ \A i \in 1..2 : response.page[i].id <= 4

\* C17 happens, the other way: a page of a profile feed without posts was
\* asked for while the store holds posts, and an empty page was rendered
C17_WitnessEmptyFeed ==
    /\ request.path.view = "profile"
    /\ request.page = <<2>>
    /\ response.kind = "render"
    /\ response.page = <<>>
    /\ posts # {}

====
